---- MODULE Spec2Model ----
(***************************************************************************)
(* Price calculator of the print-shop price list (PriceCalculator          *)
(* component, src/unnamed/part_000), and the upload of a new price list    *)
(* (UploadSection component, src/unnamed/part_002).                        *)
(*                                                                         *)
(* Numbers.  The code computes with IEEE doubles; the model computes with  *)
(* exact integers in fixed point:                                          *)
(*   - a length in millimetres is held in tenths of a millimetre           *)
(*     (90 mm = 900, 0.4 mm = 4); a catalogue size in centimetres is held  *)
(*     in tenths of a centimetre (8.6 cm = 86);                            *)
(*   - a price is held in 1/10000 of the currency unit (550 = 5500000),    *)
(*     the finest grain the magnet formula needs for lengths in tenths;    *)
(*   - NaN is the value NaN below, tested before every comparison.         *)
(* Strings that the code parses (inputs, size, quantity and price labels,  *)
(* descriptions) are TLA+ strings, parsed character by character.          *)
(***************************************************************************)
EXTENDS Integers, Sequences, FiniteSets, TLC

VARIABLES
    data,       \* props.data: the catalogue (sequence of PriceItem)
    width,      \* useState width  (string, mm)
    height,     \* useState height (string, mm)
    category,   \* useState category
    quantity,   \* useState quantity (string)
    results,    \* useState results (sequence of CalculationResult)
    error,      \* useState error (a message or Null)
    shown,      \* the inputs the last handleCalculate ran with (Undefined before)
    probe,      \* outcome of the first calculation of one chosen request
    evItem,     \* evaluation harness: the catalogue entry
    evW,        \* evaluation harness: userW_mm (tenths of mm)
    evH,        \* evaluation harness: userH_mm (tenths of mm)
    evQty,      \* evaluation harness: targetQty
    evOut,      \* evaluation harness: what calculatePriceForItem returned
    preview,    \* upload: useState preview (a data URL or Null)
    state,      \* upload: useState state, { isLoading, error }
    readers,    \* upload: the images of the FileReaders that are still reading
    analyses,   \* upload: the calls of handleAnalyze, each with its stage
    updates     \* upload: the calls of onDataUpdate, in order

compVars == <<data, width, height, category, quantity, results, error, shown, probe>>
evVars == <<evItem, evW, evH, evQty, evOut>>
upVars == <<preview, state, readers, analyses, updates>>
vars == <<data, width, height, category, quantity, results, error, shown, probe,
          evItem, evW, evH, evQty, evOut, preview, state, readers, analyses, updates>>

-----------------------------------------------------------------------------
(* JavaScript values *)

Null == [null |-> TRUE]
Undefined == [undefined |-> TRUE]
NaN == -2000000000

IsNaN(x) == x = NaN

\* !x for a number: 0 and NaN are falsy
Falsy(x) == IsNaN(x) \/ x = 0

\* a < b on numbers: false as soon as one side is NaN
Lt(a, b) == ~IsNaN(a) /\ ~IsNaN(b) /\ a < b

\* a === b on numbers: NaN equals nothing
StrictEq(a, b) == ~IsNaN(a) /\ ~IsNaN(b) /\ a = b

Abs(x) == IF x < 0 THEN -x ELSE x

Max(a, b) == IF a >= b THEN a ELSE b

Min(a, b) == IF a <= b THEN a ELSE b

\* Math.ceil(x / y), y > 0
CeilDiv(x, y) == -((-x) \div y)

\* Math.round(x / y), y > 0: halves go up
RoundDiv(x, y) == (2 * x + y) \div (2 * y)

RECURSIVE Pow10(_)
Pow10(n) == IF n = 0 THEN 1 ELSE 10 * Pow10(n - 1)

-----------------------------------------------------------------------------
(* Strings *)

Char(s, i) == SubSeq(s, i, i)

Rest(s, i) == SubSeq(s, i, Len(s))

DigitChars == "0123456789"

IsDigit(c) == \E i \in 1..10 : Char(DigitChars, i) = c

DigitVal(c) == (CHOOSE i \in 1..10 : Char(DigitChars, i) = c) - 1

IsSpace(c) == c = " "

UpperChars == "ABCDEFGHIJKLMNOPQRSTUVWXYZ"
LowerChars == "abcdefghijklmnopqrstuvwxyz"

LowerChar(c) ==
    IF \E i \in 1..26 : Char(UpperChars, i) = c
    THEN Char(LowerChars, CHOOSE i \in 1..26 : Char(UpperChars, i) = c)
    ELSE c

\* String.prototype.toLowerCase
RECURSIVE ToLower(_)
ToLower(s) == IF s = "" THEN "" ELSE LowerChar(Char(s, 1)) \o ToLower(Rest(s, 2))

\* s.replace(/[^\d]/g, ''): keep the digits
RECURSIVE KeepDigits(_)
KeepDigits(s) ==
    IF s = "" THEN ""
    ELSE (IF IsDigit(Char(s, 1)) THEN Char(s, 1) ELSE "") \o KeepDigits(Rest(s, 2))

\* s.replace(/[^\d,]/g, ''): keep the digits and the commas
RECURSIVE KeepDigitsAndCommas(_)
KeepDigitsAndCommas(s) ==
    IF s = "" THEN ""
    ELSE (IF IsDigit(Char(s, 1)) \/ Char(s, 1) = "," THEN Char(s, 1) ELSE "")
         \o KeepDigitsAndCommas(Rest(s, 2))

\* s.replace(/\./g, ''): drop the dots
RECURSIVE DropDots(_)
DropDots(s) ==
    IF s = "" THEN ""
    ELSE (IF Char(s, 1) = "." THEN "" ELSE Char(s, 1)) \o DropDots(Rest(s, 2))

\* s.replace(/\s/g, ''): drop the white space
RECURSIVE DropSpaces(_)
DropSpaces(s) ==
    IF s = "" THEN ""
    ELSE (IF IsSpace(Char(s, 1)) THEN "" ELSE Char(s, 1)) \o DropSpaces(Rest(s, 2))

\* s.indexOf(t), 1-based; 0 when t does not occur
IndexOf(s, t) ==
    LET hits == {i \in 1..(Len(s) - Len(t) + 1) : SubSeq(s, i, i + Len(t) - 1) = t}
    IN IF hits = {} THEN 0 ELSE CHOOSE i \in hits : \A j \in hits : i <= j

\* s.includes(t)
Includes(s, t) == IndexOf(s, t) # 0

\* s.replace(t, u) with a string pattern: the first occurrence only
ReplaceFirst(s, t, u) ==
    LET i == IndexOf(s, t)
    IN IF i = 0 THEN s ELSE SubSeq(s, 1, i - 1) \o u \o Rest(s, i + Len(t))

\* String.prototype.trim
RECURSIVE TrimLeft(_)
TrimLeft(s) == IF s # "" /\ IsSpace(Char(s, 1)) THEN TrimLeft(Rest(s, 2)) ELSE s

RECURSIVE TrimRight(_)
TrimRight(s) ==
    IF s # "" /\ IsSpace(Char(s, Len(s))) THEN TrimRight(SubSeq(s, 1, Len(s) - 1)) ELSE s

Trim(s) == TrimRight(TrimLeft(s))

\* length of the longest prefix of s made of digits (\d*)
RECURSIVE DigitPrefixLen(_)
DigitPrefixLen(s) ==
    IF s # "" /\ IsDigit(Char(s, 1)) THEN 1 + DigitPrefixLen(Rest(s, 2)) ELSE 0

\* length of the longest prefix of s made of digits and dots ([\d.]*)
RECURSIVE NumPrefixLen(_)
NumPrefixLen(s) ==
    IF s # "" /\ (IsDigit(Char(s, 1)) \/ Char(s, 1) = ".")
    THEN 1 + NumPrefixLen(Rest(s, 2)) ELSE 0

\* value of a string of digits
RECURSIVE DigitsVal(_)
DigitsVal(s) ==
    IF s = "" THEN 0 ELSE 10 * DigitsVal(SubSeq(s, 1, Len(s) - 1)) + DigitVal(Char(s, Len(s)))

\* the first k digits of a fraction, as an integer (".5" with k = 4 is 5000)
FracVal(s, k) ==
    LET d == SubSeq(s, 1, Min(Len(s), k)) IN DigitsVal(d) * Pow10(k - Len(d))

\* the text t without its sign
Unsigned(t) ==
    IF t # "" /\ (Char(t, 1) = "-" \/ Char(t, 1) = "+") THEN Rest(t, 2) ELSE t

\* the magnitude x with the sign of the text t
Signed(t, x) ==
    IF IsNaN(x) THEN NaN ELSE IF t # "" /\ Char(t, 1) = "-" THEN -x ELSE x

\* the digits that follow a decimal point at the start of the text, else ""
FractionDigits(after) ==
    IF after # "" /\ Char(after, 1) = "."
    THEN SubSeq(after, 2, 1 + DigitPrefixLen(Rest(after, 2)))
    ELSE ""

\* the number with integer digits ip and fraction digits fr, scaled by 10^k;
\* NaN when there is no digit
ScaledValue(ip, fr, k) ==
    IF ip = "" /\ fr = "" THEN NaN ELSE DigitsVal(ip) * Pow10(k) + FracVal(fr, k)

\* the number at the start of u, whose first ni characters are its integer digits
ScaledPrefix(u, ni, k) ==
    ScaledValue(SubSeq(u, 1, ni), FractionDigits(Rest(u, ni + 1)), k)

\* parseFloat of a text that starts with its sign or its first digit
ParseFloatTrimmed(t, k) ==
    Signed(t, ScaledPrefix(Unsigned(t), DigitPrefixLen(Unsigned(t)), k))

\* parseFloat(s), scaled by 10^k: optional white space and sign, digits,
\* optional fraction; NaN when no digit is found.  Decimals past the k-th
\* are not held (the strings the model draws have none).
ParseFloatScaled(s, k) == ParseFloatTrimmed(TrimLeft(s), k)

\* the value of the digits ip, NaN when there is none
DigitsOrNaN(ip) == IF ip = "" THEN NaN ELSE DigitsVal(ip)

\* parseInt of a text that starts with its sign or its first digit
ParseIntTrimmed(t) ==
    Signed(t, DigitsOrNaN(SubSeq(Unsigned(t), 1, DigitPrefixLen(Unsigned(t)))))

\* parseInt(s): optional white space and sign, digits; NaN when no digit
ParseInt(s) == ParseIntTrimmed(TrimLeft(s))

-----------------------------------------------------------------------------
(* Constants of the component *)

\* MULTIPLIER_CATEGORIES (the Turkish letters of the source are written in ASCII)
MULTIPLIER_CATEGORIES == {"Kartvizit", "Brosur", "El Ilani", "Etiket", "Magnet", "200 Gr. Kuse"}

\* QUANTITY_OPTIONS
QUANTITY_OPTIONS == <<1000, 2000, 3000, 4000, 5000, 6000, 8000, 10000, 12000, 20000>>

\* TOLERANCE = 0.5 mm, in tenths of mm
TOLERANCE == 5

\* SNAP_TOLERANCE = 10 mm, in tenths of mm
SNAP_TOLERANCE == 100

\* the least difference worth a suggestion: 0.5 mm, in tenths of mm
SNAP_MIN_DIFF == 5

\* the fixed base of 'Kartvizit' and 'Etiket': 8.6 x 5.4 cm, in tenths of cm
KARTVIZIT_BASE_W == 86
KARTVIZIT_BASE_H == 54

\* the magnet rate 0.21 per mm2 and 1000 pieces, in hundredths
MAGNET_RATE == 21

\* prices are held in 1/PRICE_SCALE of the currency unit: 10^PRICE_DIGITS
PRICE_DIGITS == 4

\* the two error messages (a record each, as error is a message or Null)
INVALID_INPUT == [message |-> "Lutfen gecerli ebat ve adet giriniz."]
NO_RESULTS ==
    [message |-> "Bu kriterlere uygun sonuc bulunamadi. Lutfen ebat veya adet degistirin."]

-----------------------------------------------------------------------------
(* Parsers of the catalogue's labels *)

\* parsePrice: "1.250,50 TL" is 1250.5
parsePrice(priceStr) ==
    ParseFloatScaled(ReplaceFirst(KeepDigitsAndCommas(DropDots(priceStr)), ",", "."),
                     PRICE_DIGITS)

\* the longest prefix of s made of digits and dots
NumPrefix(s) == SubSeq(s, 1, NumPrefixLen(s))

\* the groups of the match, Null when a number or the separator is missing
SizeMatch(first, sep, second) ==
    IF first # "" /\ (sep = "x" \/ sep = "*") /\ second # ""
    THEN [w |-> ParseFloatScaled(first, 1), h |-> ParseFloatScaled(second, 1)]
    ELSE Null

\* the match of /^([\d.]+)[x*]([\d.]+)/ on clean, whose first group is first
SizeAfter(clean, first) ==
    IF Len(clean) > Len(first)
    THEN SizeMatch(first, Char(clean, Len(first) + 1), NumPrefix(Rest(clean, Len(first) + 2)))
    ELSE Null

\* the match on the cleaned label
SizeOfClean(clean) == SizeAfter(clean, NumPrefix(clean))

\* parseSize: "10x20 cm" is {w: 10, h: 20}; Null when the label does not match
\* /^([\d.]+)[x*]([\d.]+)/.  w and h are in tenths of cm.
parseSize(sizeStr) == SizeOfClean(ReplaceFirst(DropSpaces(ToLower(sizeStr)), "cm", ""))

\* parseInt(item.miktar.replace(/[^\d]/g, ''))
parseMiktar(miktar) == ParseInt(KeepDigits(miktar))

\* getPaperTypeGroup: the trimmed text before the first hyphen
getPaperTypeGroup(desc, cat) ==
    IF cat = "Magnet" THEN "Magnet"
    ELSE LET i == IndexOf(desc, "-")
         IN Trim(IF i = 0 THEN desc ELSE SubSeq(desc, 1, i - 1))

-----------------------------------------------------------------------------
(* calculatePriceForItem *)

\* checkFit with < in place of <=
checkFitStrict(u, b) ==
    LET round == RoundDiv(u, b) IN Abs(u - round * b) < TOLERANCE

\* checkFit: u is within TOLERANCE of the nearest multiple of b
checkFit(u, b) ==
    LET round == RoundDiv(u, b) IN Abs(u - round * b) <= TOLERANCE

\* the factor pairs {r: i, c: ratioInt / i}, i * i <= ratioInt
Layouts(ratioInt) ==
    {<<i, ratioInt \div i>> : i \in {j \in 1..ratioInt : j * j <= ratioInt /\ ratioInt % j = 0}}

\* sheets of the four arrangements of one factor pair
LayoutMolds(userW, userH, baseW, baseH, r, c) ==
    LET totalW1 == userW * c
        totalH1 == userH * r
        totalW2 == userW * r
        totalH2 == userH * c
    IN {CeilDiv(totalW1, baseW) * CeilDiv(totalH1, baseH),
        CeilDiv(totalW1, baseH) * CeilDiv(totalH1, baseW),
        CeilDiv(totalW2, baseW) * CeilDiv(totalH2, baseH),
        CeilDiv(totalW2, baseH) * CeilDiv(totalH2, baseW)}

\* bestTotalMolds: the minimum over every factor pair of ratioInt (ratioInt >= 1)
bestTotalMolds(userW, userH, baseW, baseH, ratioInt) ==
    LET all == UNION {LayoutMolds(userW, userH, baseW, baseH, l[1], l[2]) : l \in Layouts(ratioInt)}
    IN CHOOSE m \in all : \A n \in all : m <= n

\* StandardImposition with the second ratio left out of the product
StandardImpositionOneAxis(userW, userH, baseW, baseH) ==
    IF checkFit(userW, baseW) /\ checkFit(userH, baseH)
    THEN [fit |-> TRUE, imposed |-> Max(1, RoundDiv(userW, baseW))]
    ELSE IF checkFit(userW, baseH) /\ checkFit(userH, baseW)
    THEN [fit |-> TRUE, imposed |-> Max(1, RoundDiv(userW, baseH))]
    ELSE [fit |-> FALSE, imposed |-> 0]

\* the standard imposition check: [fit, imposedMultiplier]
StandardImposition(userW, userH, baseW, baseH) ==
    IF checkFit(userW, baseW) /\ checkFit(userH, baseH)
    THEN [fit |-> TRUE,
          imposed |-> Max(1, RoundDiv(userW, baseW)) * Max(1, RoundDiv(userH, baseH))]
    ELSE IF checkFit(userW, baseH) /\ checkFit(userH, baseW)
    THEN [fit |-> TRUE,
          imposed |-> Max(1, RoundDiv(userW, baseH)) * Max(1, RoundDiv(userH, baseW))]
    ELSE [fit |-> FALSE, imposed |-> 0]

\* the parsed size s, 0 x 0 when the label did not parse
SizeOrZero(s) == IF s # Null THEN s ELSE [w |-> 0, h |-> 0]

\* BASE_W, BASE_H in tenths of cm; 0 when the size label does not parse
BaseSize(item) ==
    IF item.kategori = "Kartvizit" \/ item.kategori = "Etiket"
    THEN [w |-> KARTVIZIT_BASE_W, h |-> KARTVIZIT_BASE_H]
    ELSE SizeOrZero(parseSize(item.ebat))

\* q || 1000
OrThousand(q) == IF Falsy(q) THEN 1000 ELSE q

\* parseInt(...) || 1000
ItemQty(item) == OrThousand(parseMiktar(item.miktar))

\* MagnetPrice with the quantity factor left out
MagnetPricePerThousand(userW, userH, targetQty) == userW * userH * MAGNET_RATE

\* the magnet formula: userW_mm * userH_mm * 0.21 * (targetQty / 1000).
\* targetQty is always a member of QUANTITY_OPTIONS, a multiple of 1000.
MagnetPrice(userW, userH, targetQty) ==
    userW * userH * MAGNET_RATE * (targetQty \div 1000)

\* basePrice * multiplier
TimesPrice(basePrice, multiplier) ==
    IF IsNaN(basePrice) \/ IsNaN(multiplier) THEN NaN ELSE basePrice * multiplier

\* the multiplier of the imposition strategy
Multiplier(userW, userH, baseW, baseH, targetQty, itemQty) ==
    LET std == StandardImposition(userW, userH, baseW, baseH)
    IN IF std.fit
       THEN CeilDiv(std.imposed * targetQty, itemQty)
       ELSE bestTotalMolds(userW, userH, baseW, baseH, CeilDiv(targetQty, itemQty))

\* the outcome of the imposition strategy on a base of baseW x baseH tenths of mm
ImpositionResult(basePrice, userW, userH, baseW, baseH, targetQty, itemQty, multiplier) ==
    [price |-> TimesPrice(basePrice, multiplier),
     strategy |-> "multiplier",
     needsCut |-> ~StandardImposition(userW, userH, baseW, baseH).fit,
     details |-> [multiplier |-> multiplier, qtyRatio |-> <<targetQty, itemQty>>],
     baseDims |-> [w |-> baseW, h |-> baseH]]

\* the multiplier branch, with the base size and the tier of the entry
MultiplierResult(item, base, itemQty, userW, userH, targetQty) ==
    IF base.w = 0 \/ base.h = 0 THEN Null
    ELSE IF IsNaN(base.w) \/ IsNaN(base.h)
    THEN \* a size such as ".x5": every comparison and ceiling is NaN
         [price |-> NaN,
          strategy |-> "multiplier",
          needsCut |-> TRUE,
          details |-> [multiplier |-> NaN, qtyRatio |-> <<targetQty, itemQty>>],
          baseDims |-> [w |-> NaN, h |-> NaN]]
    ELSE ImpositionResult(parsePrice(item.fiyat), userW, userH, base.w * 10, base.h * 10,
                          targetQty, itemQty,
                          Multiplier(userW, userH, base.w * 10, base.h * 10, targetQty, itemQty))

calculatePriceForItem(item, userW, userH, targetQty) ==
    IF item.kategori = "Magnet" /\ item.kod = "MGN"
    THEN [price |-> MagnetPrice(userW, userH, targetQty),
          strategy |-> "formula",
          needsCut |-> TRUE,
          details |-> [userW_mm |-> userW, userH_mm |-> userH],
          baseDims |-> Undefined]
    ELSE IF item.kategori \in MULTIPLIER_CATEGORIES
    THEN MultiplierResult(item, BaseSize(item), ItemQty(item), userW, userH, targetQty)
    ELSE Null

-----------------------------------------------------------------------------
(* handleCalculate: grouping and best candidate *)

\* data.filter(i => i.kategori === category)
CategoryItems(d, cat) == SelectSeq(d, LAMBDA i : i.kategori = cat)

\* the key of the group an entry is pushed to
GroupKey(item, cat) ==
    IF cat = "Magnet" THEN "Ozel Ebat Magnet" ELSE getPaperTypeGroup(item.aciklama, cat)

\* Grouped without the test of the product code
GroupedWithAll(d, cat) == CategoryItems(d, cat)

\* the entries that are pushed to a group ('Magnet' keeps the MGN entries only)
Grouped(d, cat) ==
    SelectSeq(CategoryItems(d, cat), LAMBDA i : cat = "Magnet" => i.kod = "MGN")

\* the distinct values of a sequence, in the order of their first occurrence
RECURSIVE Distinct(_)
Distinct(seq) ==
    IF seq = <<>> THEN <<>>
    ELSE LET init == Distinct(SubSeq(seq, 1, Len(seq) - 1))
             last == seq[Len(seq)]
         IN IF \E i \in 1..Len(init) : init[i] = last THEN init ELSE Append(init, last)

\* a property key that is an array index ("0", "115"): such keys are
\* enumerated first, in ascending numeric order
IsArrayIndex(k) ==
    /\ k # ""
    /\ Len(k) <= 9
    /\ DigitPrefixLen(k) = Len(k)
    /\ (Len(k) > 1 => Char(k, 1) # "0")

\* a sequence of array-index keys, sorted by value
RECURSIVE SortKeys(_)
SortKeys(keys) ==
    IF keys = <<>> THEN <<>>
    ELSE LET m == CHOOSE i \in 1..Len(keys) :
                      \A j \in 1..Len(keys) : DigitsVal(keys[i]) <= DigitsVal(keys[j])
         IN <<keys[m]>> \o SortKeys(SubSeq(keys, 1, m - 1) \o SubSeq(keys, m + 1, Len(keys)))

\* Object.entries(groups): the keys in enumeration order, each with its entries
Groups(d, cat) ==
    LET items == Grouped(d, cat)
        keys == Distinct([i \in 1..Len(items) |-> GroupKey(items[i], cat)])
        order == SortKeys(SelectSeq(keys, IsArrayIndex))
                 \o SelectSeq(keys, LAMBDA k : ~IsArrayIndex(k))
    IN [g \in 1..Len(order) |->
           [paperName |-> order[g],
            items |-> SelectSeq(items, LAMBDA i : GroupKey(i, cat) = order[g])]]

\* BetterResult that keeps the first candidate with an outcome
FirstResult(before, candidate, res) ==
    IF res # Null /\ before = Null THEN [res |-> res, item |-> candidate] ELSE before

\* one turn of the loop: candidate replaces the best so far when it has an
\* outcome and no best exists or its price is lower
BetterResult(before, candidate, res) ==
    IF res # Null /\ (before = Null \/ Lt(res.price, before.res.price))
    THEN [res |-> res, item |-> candidate]
    ELSE before

\* the loop over the candidates: the first entry with the lowest price
RECURSIVE BestResult(_, _, _, _)
BestResult(items, w, h, targetQty) ==
    IF items = <<>> THEN Null
    ELSE BetterResult(BestResult(SubSeq(items, 1, Len(items) - 1), w, h, targetQty),
                      items[Len(items)],
                      calculatePriceForItem(items[Len(items)], w, h, targetQty))

-----------------------------------------------------------------------------
(* handleCalculate: display values *)

\* formatPrice: the amount the formatted text shows, in hundredths (Intl
\* currency format: at most two decimals, halves away from zero)
formatPrice(price) ==
    IF IsNaN(price) THEN NaN
    ELSE IF price >= 0 THEN (price + 50) \div 100 ELSE -((-price + 50) \div 100)

RECURSIVE GCD(_, _)
GCD(a, b) == IF b = 0 THEN a ELSE GCD(b, a % b)

\* Math.round(((currentPrice - price) / currentPrice) * 100)
SavingPercent(currentPrice, price) ==
    IF currentPrice = 0 THEN NaN
    ELSE LET sign == IF currentPrice < 0 THEN -1 ELSE 1
             num == sign * (currentPrice - price)
             den == sign * currentPrice
             g == GCD(Abs(num), den)
         IN RoundDiv((num \div g) * 100, den \div g)

\* wasteStr: the differences it prints, in tenths of mm ("" is <<>>)
WasteAmt(diffW, diffH) ==
    IF diffW >= 1 /\ diffH >= 1 THEN <<diffW, diffH>>
    ELSE IF diffW >= 1 THEN <<diffW>>
    ELSE IF diffH >= 1 THEN <<diffH>>
    ELSE <<>>

-----------------------------------------------------------------------------
(* handleCalculate: the size suggestion *)

\* the first element of seq that satisfies Test, Undefined when there is none
Find(seq, Test(_)) ==
    LET hits == {i \in 1..Len(seq) : Test(seq[i])}
    IN IF hits = {} THEN Undefined ELSE seq[CHOOSE i \in hits : \A j \in hits : i <= j]

\* exact || thousand || first
FirstDefined(exact, thousand, sizeItems) ==
    IF exact # Undefined THEN exact
    ELSE IF thousand # Undefined THEN thousand
    ELSE IF sizeItems # <<>> THEN sizeItems[1]
    ELSE Undefined

\* the choice among the entries of one size
ItemAmong(sizeItems, targetQty) ==
    FirstDefined(Find(sizeItems, LAMBDA i : StrictEq(parseMiktar(i.miktar), targetQty)),
                 Find(sizeItems, LAMBDA i : StrictEq(parseMiktar(i.miktar), 1000)),
                 sizeItems)

\* the entry of one size whose tier is targetQty, else the one of tier 1000,
\* else the first
ItemToUse(items, sStr, targetQty) ==
    ItemAmong(SelectSeq(items, LAMBDA i : i.ebat = sStr), targetQty)

\* a parsed size in tenths of mm, 0 x 0 when the label did not parse
SizeInMm(s) ==
    IF s = Null THEN [w |-> 0, h |-> 0]
    ELSE [w |-> IF IsNaN(s.w) THEN NaN ELSE s.w * 10,
          h |-> IF IsNaN(s.h) THEN NaN ELSE s.h * 10]

\* baseW, baseH of the snap search, in tenths of mm; 0 when unknown
SnapBase(itemToUse, cat) ==
    IF cat = "Kartvizit" \/ cat = "Etiket"
    THEN [w |-> KARTVIZIT_BASE_W * 10, h |-> KARTVIZIT_BASE_H * 10]
    ELSE SizeInMm(parseSize(itemToUse.ebat))

\* checkSnap with TOLERANCE where SNAP_TOLERANCE belongs
checkSnapNarrow(targetW, targetH, baseW, baseH) ==
    LET snapW == Max(1, RoundDiv(targetW, baseW)) * baseW
        snapH == Max(1, RoundDiv(targetH, baseH)) * baseH
    IN IF /\ Abs(targetW - snapW) <= TOLERANCE
          /\ Abs(targetH - snapH) <= TOLERANCE
          /\ (Abs(targetW - snapW) >= SNAP_MIN_DIFF \/ Abs(targetH - snapH) >= SNAP_MIN_DIFF)
       THEN [w |-> snapW, h |-> snapH]
       ELSE Null

\* checkSnap with twice SNAP_TOLERANCE
checkSnapWide(targetW, targetH, baseW, baseH) ==
    LET snapW == Max(1, RoundDiv(targetW, baseW)) * baseW
        snapH == Max(1, RoundDiv(targetH, baseH)) * baseH
    IN IF /\ Abs(targetW - snapW) <= 2 * SNAP_TOLERANCE
          /\ Abs(targetH - snapH) <= 2 * SNAP_TOLERANCE
          /\ (Abs(targetW - snapW) >= SNAP_MIN_DIFF \/ Abs(targetH - snapH) >= SNAP_MIN_DIFF)
       THEN [w |-> snapW, h |-> snapH]
       ELSE Null

\* checkSnap: the nearest multiple of the base on each axis, when it lies within
\* SNAP_TOLERANCE of the target on both axes and at least SNAP_MIN_DIFF away on one
checkSnap(targetW, targetH, baseW, baseH) ==
    LET snapW == Max(1, RoundDiv(targetW, baseW)) * baseW
        snapH == Max(1, RoundDiv(targetH, baseH)) * baseH
    IN IF /\ Abs(targetW - snapW) <= SNAP_TOLERANCE
          /\ Abs(targetH - snapH) <= SNAP_TOLERANCE
          /\ (Abs(targetW - snapW) >= SNAP_MIN_DIFF \/ Abs(targetH - snapH) >= SNAP_MIN_DIFF)
       THEN [w |-> snapW, h |-> snapH]
       ELSE Null

\* the rotated snap: multiples of baseH along the width, of baseW along the height
RotatedSnap(w, h, baseW, baseH) == checkSnap(w, h, baseH, baseW)

\* Accepts with <= for the price and the fit left unchecked
AcceptsNotDearer(res, calcResult) ==
    ~IsNaN(res.price) /\ ~IsNaN(calcResult.price) /\ res.price <= calcResult.price

\* whether a snapped outcome is taken as a suggestion
Accepts(res, calcResult) ==
    LET isCheaper == Lt(res.price, calcResult.price)
        isSamePriceButStandard ==
            StrictEq(res.price, calcResult.price) /\ calcResult.needsCut /\ ~res.needsCut
    IN isCheaper \/ isSamePriceButStandard

\* Suggestion with the requested size recorded in place of the snapped size
SuggestionOfRequest(res, w, h, w_mm, h_mm, calcResult) ==
    [w_mm |-> w_mm,
     h_mm |-> h_mm,
     price |-> res.price,
     formattedPrice |-> formatPrice(res.price),
     savingAmount |-> formatPrice(calcResult.price - res.price),
     savingPercent |-> IF Lt(res.price, calcResult.price)
                       THEN SavingPercent(calcResult.price, res.price) ELSE 0,
     isSamePrice |-> StrictEq(res.price, calcResult.price) /\ calcResult.needsCut /\ ~res.needsCut,
     wasteAmt |-> WasteAmt(Abs(w_mm - w), Abs(h_mm - h))]

\* the suggestion recorded for the size w x h with outcome res
Suggestion(res, w, h, w_mm, h_mm, calcResult) ==
    [w_mm |-> w,
     h_mm |-> h,
     price |-> res.price,
     formattedPrice |-> formatPrice(res.price),
     savingAmount |-> formatPrice(calcResult.price - res.price),
     savingPercent |-> IF Lt(res.price, calcResult.price)
                       THEN SavingPercent(calcResult.price, res.price) ELSE 0,
     isSamePrice |-> StrictEq(res.price, calcResult.price) /\ calcResult.needsCut /\ ~res.needsCut,
     wasteAmt |-> WasteAmt(Abs(w_mm - w), Abs(h_mm - h))]

\* TakeSuggestion without the comparison with the suggestion kept so far
TakeLastSuggestion(bestSuggestion, res, w, h, w_mm, h_mm, calcResult) ==
    IF res # Null /\ Accepts(res, calcResult)
    THEN Suggestion(res, w, h, w_mm, h_mm, calcResult)
    ELSE bestSuggestion

\* bestSuggestion after the outcome res of the size w x h
TakeSuggestion(bestSuggestion, res, w, h, w_mm, h_mm, calcResult) ==
    IF /\ res # Null
       /\ Accepts(res, calcResult)
       /\ (bestSuggestion = Undefined \/ res.price <= bestSuggestion.price)
    THEN Suggestion(res, w, h, w_mm, h_mm, calcResult)
    ELSE bestSuggestion

\* evaluateSuggestion: bestSuggestion after trying the size w x h
evaluateSuggestion(bestSuggestion, itemToUse, w, h, w_mm, h_mm, targetQty, calcResult) ==
    TakeSuggestion(bestSuggestion, calculatePriceForItem(itemToUse, w, h, targetQty),
                   w, h, w_mm, h_mm, calcResult)

\* if (snap) evaluateSuggestion(snap.w, snap.h)
TrySnap(bestSuggestion, itemToUse, snap, w_mm, h_mm, targetQty, calcResult) ==
    IF snap # Null
    THEN evaluateSuggestion(bestSuggestion, itemToUse, snap.w, snap.h, w_mm, h_mm, targetQty,
                            calcResult)
    ELSE bestSuggestion

\* the direct snap, then the rotated snap, on a base of base.w x base.h
SnapOnBase(bestSuggestion, itemToUse, base, w_mm, h_mm, targetQty, calcResult) ==
    IF base.w = 0 \/ base.h = 0 \/ IsNaN(base.w) \/ IsNaN(base.h)
    THEN bestSuggestion
    ELSE TrySnap(TrySnap(bestSuggestion, itemToUse, checkSnap(w_mm, h_mm, base.w, base.h),
                         w_mm, h_mm, targetQty, calcResult),
                 itemToUse, RotatedSnap(w_mm, h_mm, base.w, base.h),
                 w_mm, h_mm, targetQty, calcResult)

\* the snap search with the entry chosen for one size
SnapWithItem(bestSuggestion, itemToUse, w_mm, h_mm, cat, targetQty, calcResult) ==
    IF itemToUse = Undefined THEN bestSuggestion
    ELSE SnapOnBase(bestSuggestion, itemToUse, SnapBase(itemToUse, cat), w_mm, h_mm, targetQty,
                    calcResult)

\* one pass of distinctSizes.forEach: the direct snap, then the rotated snap
SuggestForSize(bestSuggestion, items, sStr, w_mm, h_mm, cat, targetQty, calcResult) ==
    SnapWithItem(bestSuggestion, ItemToUse(items, sStr, targetQty), w_mm, h_mm, cat, targetQty,
                 calcResult)

RECURSIVE SuggestOver(_, _, _, _, _, _, _)
SuggestOver(sizes, items, w_mm, h_mm, cat, targetQty, calcResult) ==
    IF sizes = <<>> THEN Undefined
    ELSE SuggestForSize(
             SuggestOver(SubSeq(sizes, 1, Len(sizes) - 1), items, w_mm, h_mm, cat, targetQty,
                         calcResult),
             items, sizes[Len(sizes)], w_mm, h_mm, cat, targetQty, calcResult)

\* SizeSuggestion with the snap search run for every category
SizeSuggestionAlways(items, w_mm, h_mm, cat, targetQty, calcResult) ==
    SuggestOver(Distinct([i \in 1..Len(items) |-> items[i].ebat]), items, w_mm, h_mm, cat,
                targetQty, calcResult)

\* sizeSuggestion of one group
SizeSuggestion(items, w_mm, h_mm, cat, targetQty, calcResult) ==
    IF cat # "Magnet"
    THEN SuggestOver(Distinct([i \in 1..Len(items) |-> items[i].ebat]), items, w_mm, h_mm, cat,
                     targetQty, calcResult)
    ELSE Undefined

-----------------------------------------------------------------------------
(* handleCalculate: the quantity suggestions *)

\* QUANTITY_OPTIONS.indexOf(targetQty), 0-based; -1 when absent
QtyIndex(targetQty) ==
    IF \E i \in 1..Len(QUANTITY_OPTIONS) : QUANTITY_OPTIONS[i] = targetQty
    THEN (CHOOSE i \in 1..Len(QUANTITY_OPTIONS) : QUANTITY_OPTIONS[i] = targetQty) - 1
    ELSE -1

\* QUANTITY_OPTIONS[idx], for a 0-based idx
QtyOption(idx) == QUANTITY_OPTIONS[idx + 1]

\* the arrays of findBestPriceForQty: the array of the group and the two
\* arrays that items.filter returns, each of them a new array
LookupArrays(items, targetQ) ==
    [items |-> items,
     qItems |-> SelectSeq(items, LAMBDA i : StrictEq(parseMiktar(i.miktar), targetQ)),
     thousand |-> SelectSeq(items, LAMBDA i : StrictEq(parseMiktar(i.miktar), 1000))]

\* the array that qCandidates refers to
CandidatesRef(arrays) == IF Len(arrays.qItems) > 0 THEN "qItems" ELSE "thousand"

\* Pushed with the array of the group as the target of the push
PushedToItems(arrays, ref) == [arrays EXCEPT !.items = Append(@, arrays.items[1])]

\* qCandidates.push(items[0])
Pushed(arrays, ref) == [arrays EXCEPT ![ref] = Append(@, arrays.items[1])]

\* the arrays after the fallback to the first entry of the group
AfterFallback(arrays, ref) ==
    IF Len(arrays[ref]) = 0 /\ Len(arrays.items) > 0 THEN Pushed(arrays, ref) ELSE arrays

\* the arrays when the loop over qCandidates starts
ArraysOfLookup(items, targetQ) ==
    AfterFallback(LookupArrays(items, targetQ), CandidatesRef(LookupArrays(items, targetQ)))

\* qCandidates: the entries of tier targetQ, else those of tier 1000, else the first
QtyCandidates(items, targetQ) ==
    ArraysOfLookup(items, targetQ)[CandidatesRef(LookupArrays(items, targetQ))]

\* LowerPrice without the comparison with the lowest price so far
LatestPrice(before, r) ==
    IF r # Null /\ ~IsNaN(r.price) THEN [price |-> r.price] ELSE before

\* one turn of the loop: the outcome r replaces the lowest price so far
LowerPrice(before, r) ==
    IF r # Null /\ ~IsNaN(r.price) /\ (before = Null \/ r.price < before.price)
    THEN [price |-> r.price]
    ELSE before

\* the lowest price over the candidates, Null when none has a price
RECURSIVE LowestPrice(_, _, _, _)
LowestPrice(cands, w_mm, h_mm, targetQ) ==
    IF cands = <<>> THEN Null
    ELSE LowerPrice(LowestPrice(SubSeq(cands, 1, Len(cands) - 1), w_mm, h_mm, targetQ),
                    calculatePriceForItem(cands[Len(cands)], w_mm, h_mm, targetQ))

\* findBestPriceForQty
findBestPriceForQty(items, w_mm, h_mm, targetQ) ==
    LowestPrice(QtyCandidates(items, targetQ), w_mm, h_mm, targetQ)

\* { qty, price: formatPrice(price) } when a price was found
QtyOffer(qty, found) ==
    IF found # Null THEN [qty |-> qty, price |-> formatPrice(found.price)] ELSE Undefined

\* prevQty
PrevQty(items, w_mm, h_mm, targetQty) ==
    IF QtyIndex(targetQty) > 0
    THEN QtyOffer(QtyOption(QtyIndex(targetQty) - 1),
                  findBestPriceForQty(items, w_mm, h_mm, QtyOption(QtyIndex(targetQty) - 1)))
    ELSE Undefined

\* NextTier without the rule for 2000
NextTierInOrder(targetQty) == QtyOption(QtyIndex(targetQty) + 1)

\* the tier proposed after targetQty: the next option, 4000 in place of 3000
\* after 2000
NextTier(targetQty) ==
    LET nQty == QtyOption(QtyIndex(targetQty) + 1)
    IN IF targetQty = 2000 /\ nQty = 3000 /\ QtyIndex(4000) # -1 THEN 4000 ELSE nQty

\* nextQty
NextQty(items, w_mm, h_mm, targetQty) ==
    IF QtyIndex(targetQty) < Len(QUANTITY_OPTIONS) - 1
    THEN QtyOffer(NextTier(targetQty),
                  findBestPriceForQty(items, w_mm, h_mm, NextTier(targetQty)))
    ELSE Undefined

-----------------------------------------------------------------------------
(* handleCalculate: results and their order *)

\* the result pushed for a group whose best candidate is bestResult
PushedResult(group, bestResult, w_mm, h_mm, cat, targetQty) ==
    IF bestResult = Null THEN Null
    ELSE [paperName |-> group.paperName,
          strategy |-> bestResult.res.strategy,
          matchItem |-> bestResult.item,
          calculatedPrice |-> bestResult.res.price,
          formattedPrice |-> formatPrice(bestResult.res.price),
          needsCut |-> bestResult.res.needsCut,
          isExact |-> ~bestResult.res.needsCut,
          details |-> bestResult.res.details,
          baseDims |-> bestResult.res.baseDims,
          prevQty |-> PrevQty(group.items, w_mm, h_mm, targetQty),
          nextQty |-> NextQty(group.items, w_mm, h_mm, targetQty),
          sizeSuggestion |->
              SizeSuggestion(group.items, w_mm, h_mm, cat, targetQty, bestResult.res)]

\* the result pushed for one group; Null when no candidate has an outcome
GroupResult(group, w_mm, h_mm, cat, targetQty) ==
    PushedResult(group, BestResult(group.items, w_mm, h_mm, targetQty), w_mm, h_mm, cat,
                 targetQty)

\* CalculatedResults with the loop over the groups ended at the first group
\* that has no outcome
CalculatedResultsUntilSkip(d, w_mm, h_mm, cat, targetQty) ==
    LET groups == Groups(d, cat)
        all == [g \in 1..Len(groups) |-> GroupResult(groups[g], w_mm, h_mm, cat, targetQty)]
        skipped == {g \in 1..Len(all) : all[g] = Null}
    IN IF skipped = {} THEN all
       ELSE SubSeq(all, 1, (CHOOSE g \in skipped : \A h \in skipped : g <= h) - 1)

\* calculatedResults before the sort
CalculatedResults(d, w_mm, h_mm, cat, targetQty) ==
    LET groups == Groups(d, cat)
        all == [g \in 1..Len(groups) |-> GroupResult(groups[g], w_mm, h_mm, cat, targetQty)]
    IN SelectSeq(all, LAMBDA r : r # Null)

\* the 115 gr brochure papers are listed first
IsPrio(r) == r.matchItem.kategori = "Brosur" /\ Includes(r.paperName, "115")

\* Before without the rule for the 115 gr brochure papers
BeforeByPrice(a, b) == Lt(a.calculatedPrice, b.calculatedPrice)

\* the comparator of the sort is negative: a goes before b
Before(a, b) ==
    IF IsPrio(a) /\ ~IsPrio(b) THEN TRUE
    ELSE IF ~IsPrio(a) /\ IsPrio(b) THEN FALSE
    ELSE Lt(a.calculatedPrice, b.calculatedPrice)

\* insert r after the last element that does not come after it
InsertSorted(sorted, r) ==
    LET later == {i \in 1..Len(sorted) : Before(r, sorted[i])}
        at == IF later = {} THEN Len(sorted) + 1 ELSE CHOOSE i \in later : \A j \in later : i <= j
    IN SubSeq(sorted, 1, at - 1) \o <<r>> \o SubSeq(sorted, at, Len(sorted))

\* Array.prototype.sort with the comparator: a stable sort
RECURSIVE SortResults(_)
SortResults(rs) ==
    IF rs = <<>> THEN <<>>
    ELSE InsertSorted(SortResults(SubSeq(rs, 1, Len(rs) - 1)), rs[Len(rs)])

-----------------------------------------------------------------------------
(* handleCalculate: the whole handler *)

\* parseFloat(width.replace(',', '.')), in tenths of mm
ParseDim(str) == ParseFloatScaled(ReplaceFirst(str, ",", "."), 1)

\* the input check: !w_mm || !h_mm || !targetQty
InvalidInput(w_mm, h_mm, targetQty) == Falsy(w_mm) \/ Falsy(h_mm) \/ Falsy(targetQty)

\* the handler without its setResults([])
KeepResults(prev) == prev

\* setResults([]) at the start of the handler
ResetResults(prev) == <<>>

\* Outcome without the no-results error
OutcomeWithoutError(cleared, calculatedResults) ==
    [results |-> SortResults(calculatedResults), error |-> Null]

\* the end of the handler: the no-results error, or the sorted results
Outcome(cleared, calculatedResults) ==
    IF Len(calculatedResults) = 0
    THEN [results |-> cleared, error |-> NO_RESULTS]
    ELSE [results |-> SortResults(calculatedResults), error |-> Null]

\* the values of results and error when the handler returns
handleCalculate(prevResults, d, widthStr, heightStr, cat, quantityStr) ==
    LET w_mm == ParseDim(widthStr)
        h_mm == ParseDim(heightStr)
        targetQty == ParseInt(quantityStr)
    IN IF InvalidInput(w_mm, h_mm, targetQty)
       THEN [results |-> ResetResults(prevResults), error |-> INVALID_INPUT]
       ELSE Outcome(ResetResults(prevResults),
                    CalculatedResults(d, w_mm, h_mm, cat, targetQty))

\* categories: the options of the category select
ExcludedWords ==
    {"zarf", "bloknot", "dosya", "oto paspas", "amerikan servis", "karton canta", "antetli", "afis"}

categories(d) ==
    {d[i].kategori : i \in {j \in 1..Len(d) :
        \A word \in ExcludedWords : ~Includes(ToLower(Trim(d[j].kategori)), word)}}

\* String(n), n >= 0
RECURSIVE NumberToString(_)
NumberToString(n) ==
    IF n < 10 THEN Char(DigitChars, n + 1)
    ELSE NumberToString(n \div 10) \o Char(DigitChars, (n % 10) + 1)

-----------------------------------------------------------------------------
(* Bounds and the values the model draws *)

\* widths and heights run over the first MaxMultiple multiples of 86 and 54 mm
MaxMultiple == 3

\* quantities run over the first MaxQtyIdx members of QUANTITY_OPTIONS
MaxQtyIdx == 5

Item(kategori, ebat, kod, aciklama, miktar, fiyat) ==
    [kategori |-> kategori, ebat |-> ebat, kod |-> kod, aciklama |-> aciklama,
     miktar |-> miktar, fiyat |-> fiyat]

KV1000 == Item("Kartvizit", "8.6x5.4 cm", "KV1", "350 gr. Mat Kuse - Tek Yon", "1.000 Adet", "550 TL")
KV2000 == Item("Kartvizit", "8.6x5.4 cm", "KV2", "350 gr. Mat Kuse - Tek Yon", "2.000 Adet", "900 TL")
KVSEL == Item("Kartvizit", "8.6x5.4 cm", "KV3", "350 gr. Selefonlu - Cift Yon", "1.000 Adet", "700 TL")
BR115 == Item("Brosur", "10x20 cm", "BR1", "115 gr. Parlak Kuse - 4 Renk", "1.000 Adet", "1.250,50 TL")
BR115A == Item("Brosur", "14.8x21", "BR2", "115 gr. Parlak Kuse - 4 Renk", "2.000 Adet", "1.900 TL")
BR150 == Item("Brosur", "10X20CM", "BR3", "150 gr. Parlak Kuse- 4 Renk", "1000", "1.100 TL")
BRA5 == Item("Brosur", "14.8x21 cm", "BR9", "135 gr. Kuse - 4 Renk", "1.000 Adet", "800 TL")
BRA4 == Item("Brosur", "A4", "BR4", "170 gr. Mat Kuse - 4 Renk", "1.000 Adet", "2.000 TL")
MGN1 == Item("Magnet", "Ozel Ebat", "MGN", "Ozel Ebat Magnet - 60 Mikron", "1.000 Adet", "0,21 TL")
MGN2 == Item("Magnet", "Ozel Ebat", "MGN", "Ozel Ebat Magnet - 60 Mikron", "5.000 Adet", "999 TL")
MGNSZ == Item("Magnet", "10x20 cm", "MGN", "Hazir Kesim Magnet - 60 Mikron", "2.000 Adet", "5 TL")
MG57 == Item("Magnet", "5x7 cm", "MG2", "Hazir Ebat Magnet - 60 Mikron", "1.000 Adet", "300 TL")
ZARF == Item("Zarf", "11x23 cm", "ZR1", "110 gr. Diplomat - Pencereli", "1.000 Adet", "800 TL")
EL2000 == Item("El Ilani", "10x20 cm", "EL1", "115 gr. Kuse - Tek Yon", "2.000 Adet", "600 TL")
EL130 == Item("El Ilani", "10x20 cm", "EL2", "130 gr. Kuse - Tek Yon", "1.000 Adet", "400 TL")
EL95 == Item("El Ilani", "9.5x20 cm", "EL4", "130 gr. Kuse - Tek Yon", "1.000 Adet", "350 TL")
ELA5 == Item("El Ilani", "A5", "EL5", "200 gr. Kuse - Tek Yon", "1.000 Adet", "300 TL")
EL200 == Item("El Ilani", "10x20 cm", "EL6", "200 gr. Kuse - Tek Yon", "2.000 Adet", "700 TL")
EL150 == Item("El Ilani", "10x20 cm", "EL3", "150 gr. Kuse - Tek Yon", "1.000 Adet", "400 TL")
DAV == Item("Davetiye", "15x15 cm", "DV1", "300 gr. Bristol - Tek Yon", "1.000 Adet", "950 TL")
BR115M == Item("Brosur", "10x20 cm", "BR6", "115 gr. Mat Kuse - 4 Renk", "1.000 Adet", "1.000 TL")
ETK == Item("Etiket", "5x5 cm", "ET1", "Kuse Etiket - Tek Yon", "Bin Adet", "250 TL")
BRDOT == Item("Brosur", ".x5 cm", "BR5", "200 gr. Mat Kuse - 4 Renk", "1.000 Adet", "1.500 TL")

\* entries of the evaluation harness
EvalItems ==
    {KV1000, KV2000, BR115, BR115A, BRA4, BRA5, MGN1, MGN2, MG57, ZARF, EL2000, ETK, BRDOT}

\* lengths in tenths of mm: the multiples of the business-card base, lengths off
\* the grid by 0.5, 1 and 4 mm, a length under the tolerance, a piece that goes
\* four times into an A5 sheet, and negative lengths
EvalDims ==
    {a * 860 : a \in 1..MaxMultiple} \cup {b * 540 : b \in 1..MaxMultiple}
    \cup {4, 720, 800, 850, 865, 900, 1000, 1400, 1500, 2000, -860, -1400}

Tiers == {QUANTITY_OPTIONS[i] : i \in 1..MaxQtyIdx}

-----------------------------------------------------------------------------
(* The upload component: state, handlers, specification *)

\* the message of the catch block of handleAnalyze (a record, as error is a
\* message or Null)
ANALYSIS_ERROR ==
    [message |-> "Analiz sirasinda bir hata olustu. Lutfen tekrar deneyin veya API anahtarinizi kontrol edin."]

\* the calls of handleAnalyze that a run follows
MaxAnalyses == 2

\* the FileReaders that read at the same time
MaxReaders == 2

\* the images chosen in the file dialog, as the data URLs their readers give
\* (a record each, as preview is a data URL or Null)
Images == {[url |-> "data:image/png;base64,AAAA"], [url |-> "data:image/jpeg;base64,BBBB"]}

\* what analyzeImage resolves with: [] for an empty answer, else the parsed list
NewCatalogs == {<<>>, <<KV1000>>}

\* { isLoading: false, error: null }
IdleState == [isLoading |-> FALSE, error |-> Null]

\* { isLoading: true, error: null }
LoadingState == [isLoading |-> TRUE, error |-> Null]

\* the state set by the catch block with the loading flag left on
FailedStateStillLoading == [isLoading |-> TRUE, error |-> ANALYSIS_ERROR]

\* the state set by the catch block
FailedState == [isLoading |-> FALSE, error |-> ANALYSIS_ERROR]

\* a call of handleAnalyze that has not been made yet
NotStarted == [stage |-> "none", image |-> Null]

\* the component after mounting
UploadIdle ==
    /\ preview = Null
    /\ state = IdleState
    /\ readers = <<>>
    /\ analyses = [i \in 1..MaxAnalyses |-> NotStarted]
    /\ updates = <<>>

\* a sequence without its k-th member
Without(seq, k) == SubSeq(seq, 1, k - 1) \o SubSeq(seq, k + 1, Len(seq))

\* handleFileSelect with a file chosen: a FileReader starts to read it.  The
\* button that opens the file dialog is rendered while there is no preview.
handleFileSelect(img) ==
    /\ preview = Null
    /\ Len(readers) < MaxReaders
    /\ readers' = Append(readers, img)
    /\ UNCHANGED <<preview, state, analyses, updates>>
    /\ UNCHANGED compVars
    /\ UNCHANGED evVars

\* reader.onloadend: reader.result is the data URL, or null when reading failed
ReaderLoadEnd(k) ==
    /\ k \in 1..Len(readers)
    /\ \E loaded \in BOOLEAN : preview' = IF loaded THEN readers[k] ELSE Null
    /\ state' = IdleState
    /\ readers' = Without(readers, k)
    /\ UNCHANGED <<analyses, updates>>
    /\ UNCHANGED compVars
    /\ UNCHANGED evVars

\* the call of handleAnalyze that is made next
NextAnalysis == CHOOSE i \in 1..MaxAnalyses :
                    analyses[i].stage = "none" /\ \A j \in 1..(i - 1) : analyses[j].stage # "none"

\* handleAnalyze up to its await: nothing without a preview, else the loading
\* state and the call of analyzeImage.  Its button is disabled while loading.
handleAnalyze ==
    /\ ~state.isLoading
    /\ \E i \in 1..MaxAnalyses : analyses[i].stage = "none"
    /\ IF preview = Null
       THEN UNCHANGED upVars
       ELSE /\ state' = LoadingState
            /\ analyses' = [analyses EXCEPT ![NextAnalysis] =
                                [stage |-> "running", image |-> preview]]
            /\ UNCHANGED <<preview, readers, updates>>
    /\ UNCHANGED compVars
    /\ UNCHANGED evVars

\* analyzeImage resolved: onDataUpdate(newData), then the idle state
AnalysisResolved(i, newData) ==
    /\ analyses[i].stage = "running"
    /\ updates' = Append(updates, [by |-> i, data |-> newData])
    /\ state' = IdleState
    /\ analyses' = [analyses EXCEPT ![i].stage = "done"]
    /\ UNCHANGED <<preview, readers>>
    /\ UNCHANGED compVars
    /\ UNCHANGED evVars

\* analyzeImage rejected (no API key, a failed request, an answer that does
\* not parse): the catch block
AnalysisRejected(i) ==
    /\ analyses[i].stage = "running"
    /\ state' = FailedState
    /\ analyses' = [analyses EXCEPT ![i].stage = "failed"]
    /\ UNCHANGED <<preview, readers, updates>>
    /\ UNCHANGED compVars
    /\ UNCHANGED evVars

\* handleReset; its button is rendered with a preview and disabled while loading
handleReset ==
    /\ preview # Null
    /\ ~state.isLoading
    /\ preview' = Null
    /\ state' = IdleState
    /\ UNCHANGED <<readers, analyses, updates>>
    /\ UNCHANGED compVars
    /\ UNCHANGED evVars

\* the promise of analyzeImage settles
Settle ==
    \E i \in 1..MaxAnalyses :
        \/ \E newData \in NewCatalogs : AnalysisResolved(i, newData)
        \/ AnalysisRejected(i)

UploadInit ==
    /\ UploadIdle
    /\ data = <<KV1000>>
    /\ width = ""
    /\ height = ""
    /\ category = "Brosur"
    /\ quantity = "1000"
    /\ results = <<>>
    /\ error = Null
    /\ shown = Undefined
    /\ probe = Undefined
    /\ evItem = KV1000
    /\ evW = 860
    /\ evH = 540
    /\ evQty = 1000
    /\ evOut = Undefined

UploadNext ==
    \/ \E img \in Images : handleFileSelect(img)
    \/ \E k \in 1..MaxReaders : ReaderLoadEnd(k)
    \/ handleAnalyze
    \/ \E i \in 1..MaxAnalyses : \E newData \in NewCatalogs : AnalysisResolved(i, newData)
    \/ \E i \in 1..MaxAnalyses : AnalysisRejected(i)
    \/ handleReset

\* every call of analyzeImage returns a promise that settles
SpecUpload == UploadInit /\ [][UploadNext]_vars /\ WF_vars(Settle)

-----------------------------------------------------------------------------
(* The component: state, handlers, specification *)

\* the quantity select offers the first MaxQtyInputs members of QUANTITY_OPTIONS
MaxQtyInputs == 3

\* the catalogues the component is mounted with
CatalogOne == <<KV1000>>
CatalogFull ==
    <<KV1000, KV2000, KVSEL, BR150, BR115, BR115A, BRA4, MG57, MGN1, MGN2, ZARF, BR115M>>
CatalogFlyers == <<EL2000, EL95, EL130, EL150, ELA5, EL200, MG57, MGNSZ, DAV>>
Catalogs == {CatalogOne, CatalogFull, CatalogFlyers}

\* the options of the category select, for each catalogue
CategoryOptions == [d \in Catalogs |-> categories(d)]

\* typed sizes run over the first MaxInputMultiple multiples of 86 and 54 mm
MaxInputMultiple == 2

\* what is typed into the width and height fields: nothing, zero, a negative
\* length, lengths off the business-card grid (one of them by exactly the
\* tolerance), multiples of it, a width a little off twice the brochure's, and
\* one 5 mm over it
WidthInputs ==
    {"", "0", "-86", "85", "86.5", "90", "100", "105", "200.4"}
    \cup {NumberToString(a * 86) : a \in 1..MaxInputMultiple}
HeightInputs ==
    {"", "0", "-54", "200"} \cup {NumberToString(b * 54) : b \in 1..MaxInputMultiple}

\* the inputs of the runs that follow the component through several calculations
FewWidths == {"", "-86", "86", "90"}
FewHeights == {"", "54"}

QuantityInputs == {NumberToString(QUANTITY_OPTIONS[i]) : i \in 1..MaxQtyInputs}

Request(w, h, c, q) == [width |-> w, height |-> h, category |-> c, quantity |-> q]

\* the requests whose first outcome is kept for comparison
ProbeRequests ==
    {Request(w, "54", "Kartvizit", "1000") : w \in {"", "90"}}

CompInit ==
    /\ width = ""
    /\ height = ""
    /\ category = "Brosur"
    /\ quantity = "1000"
    /\ results = <<>>
    /\ error = Null
    /\ shown = Undefined

Init ==
    /\ data \in Catalogs
    /\ CompInit
    /\ probe = Undefined
    /\ evItem = KV1000
    /\ evW = 860
    /\ evH = 540
    /\ evQty = 1000
    /\ evOut = Undefined
    /\ UploadIdle

\* onChange of the width field
setWidth(v) ==
    /\ width' = v
    /\ UNCHANGED <<data, height, category, quantity, results, error, shown, probe>>
    /\ UNCHANGED evVars
    /\ UNCHANGED upVars

\* onChange of the height field
setHeight(v) ==
    /\ height' = v
    /\ UNCHANGED <<data, width, category, quantity, results, error, shown, probe>>
    /\ UNCHANGED evVars
    /\ UNCHANGED upVars

\* onChange of the category select
setCategory(c) ==
    /\ category' = c
    /\ UNCHANGED <<data, width, height, quantity, results, error, shown, probe>>
    /\ UNCHANGED evVars
    /\ UNCHANGED upVars

\* onChange of the quantity select
setQuantity(q) ==
    /\ quantity' = q
    /\ UNCHANGED <<data, width, height, category, results, error, shown, probe>>
    /\ UNCHANGED evVars
    /\ UNCHANGED upVars

\* onClick of HESAPLA
HandleCalculate ==
    \E out \in {handleCalculate(results, data, width, height, category, quantity)} :
    LET request == Request(width, height, category, quantity)
    IN /\ results' = out.results
       /\ error' = out.error
       /\ shown' = request
       /\ probe' = IF probe = Undefined
                   THEN IF request \in ProbeRequests
                        THEN [request |-> request, results |-> out.results, error |-> out.error,
                              again |-> FALSE]
                        ELSE probe
                   ELSE IF request = probe.request /\ shown # request
                        THEN [probe EXCEPT !.again = TRUE]
                        ELSE probe
       /\ UNCHANGED <<data, width, height, category, quantity>>
       /\ UNCHANGED evVars
       /\ UNCHANGED upVars
    /\ UNCHANGED upVars

Next ==
    \/ \E v \in FewWidths : setWidth(v)
    \/ \E v \in FewHeights : setHeight(v)
    \/ \E c \in CategoryOptions[data] : setCategory(c)
    \/ \E q \in QuantityInputs : setQuantity(q)
    \/ HandleCalculate

Spec == Init /\ [][Next]_vars

\* one calculation, from every state of the inputs that the setters reach
CalcInit ==
    /\ data \in Catalogs
    /\ width \in WidthInputs
    /\ height \in HeightInputs
    /\ category \in CategoryOptions[data] \cup {"Brosur"}
    /\ quantity \in QuantityInputs
    /\ results = <<>>
    /\ error = Null
    /\ shown = Undefined
    /\ probe = Undefined
    /\ evItem = KV1000
    /\ evW = 860
    /\ evH = 540
    /\ evQty = 1000
    /\ evOut = Undefined
    /\ UploadIdle

SpecCalc == CalcInit /\ [][HandleCalculate]_vars

\* the quantities handed to the handler when the quantity state holds any
\* digits: every tier of the list, and quantities under, between and over them
AnyQuantityInputs ==
    {NumberToString(QUANTITY_OPTIONS[i]) : i \in 1..Len(QUANTITY_OPTIONS)}
    \cup {"500", "1500", "25000"}

\* one calculation at any quantity
AnyQtyInit ==
    /\ data \in Catalogs
    /\ width \in {"86", "105"}
    /\ height \in {"54", "200"}
    /\ category \in CategoryOptions[data]
    /\ quantity \in AnyQuantityInputs
    /\ results = <<>>
    /\ error = Null
    /\ shown = Undefined
    /\ probe = Undefined
    /\ evItem = KV1000
    /\ evW = 860
    /\ evH = 540
    /\ evQty = 1000
    /\ evOut = Undefined
    /\ UploadIdle

SpecAnyQty == AnyQtyInit /\ [][HandleCalculate]_vars

\* the request the results on screen were computed for
ShownW == ParseDim(shown.width)
ShownH == ParseDim(shown.height)
ShownQty == ParseInt(shown.quantity)

-----------------------------------------------------------------------------
(* Claims on handleCalculate *)

Calculated == shown # Undefined

\* the entries of the group a result was computed from
GroupItems(r) ==
    SelectSeq(Grouped(data, shown.category), LAMBDA i : GroupKey(i, shown.category) = r.paperName)

\* C2: with one business-card entry of tier 1000 in the catalogue, 90x54 mm
\* at quantity 1000 is no standard fit, its multiplier is the one of the
\* layout search, and the result suggests 86x54 mm at a price that is lower,
\* or equal with a standard fit.
C2_SnapTo86x54 ==
    (/\ Calculated
     /\ Len(CategoryItems(data, "Kartvizit")) = 1
     /\ parseMiktar(CategoryItems(data, "Kartvizit")[1].miktar) = 1000
     /\ shown = Request("90", "54", "Kartvizit", "1000"))
    => /\ error = Null
       /\ Len(results) = 1
       /\ results[1].needsCut
       /\ results[1].strategy = "multiplier"
       /\ results[1].details.multiplier = 2
       /\ results[1].details.multiplier = bestTotalMolds(900, 540, 860, 540, 1)
       /\ results[1].sizeSuggestion # Undefined
       /\ results[1].sizeSuggestion.w_mm = 860
       /\ results[1].sizeSuggestion.h_mm = 540
       /\ \/ results[1].sizeSuggestion.price < results[1].calculatedPrice
          \/ /\ results[1].sizeSuggestion.price = results[1].calculatedPrice
             /\ results[1].sizeSuggestion.isSamePrice

C2_Witness ==
    /\ Calculated
    /\ data = CatalogOne
    /\ shown = Request("90", "54", "Kartvizit", "1000")
    /\ Len(results) = 1
    /\ results[1].calculatedPrice = 1100 * 10000
    /\ results[1].sizeSuggestion # Undefined
    /\ results[1].sizeSuggestion.price = 550 * 10000

\* C4: for every request that passes the input check, every result has a
\* price >= 0 and every result of the multiplier strategy a multiplier >= 1.
C4_PriceAndMultiplierPositive ==
    (Calculated /\ ~InvalidInput(ShownW, ShownH, ShownQty))
    => \A i \in 1..Len(results) :
           /\ results[i].calculatedPrice >= 0
           /\ (results[i].strategy = "multiplier" => results[i].details.multiplier >= 1)

\* C5: a request calculated again, also after calculations of other requests,
\* gives the results and the error of its first calculation.
C5_SameRequestSameOutcome ==
    (Calculated /\ probe # Undefined /\ shown = probe.request)
    => /\ results = probe.results
       /\ error = probe.error

\* the request of the probe was calculated again after another request
C5_Witness ==
    /\ Calculated
    /\ probe # Undefined
    /\ probe.again
    /\ shown = probe.request
    /\ error = INVALID_INPUT

\* C8: a size suggestion is cheaper than its result, or costs the same while
\* the result needs a cut and the suggested size is a standard fit of an
\* entry of the group.
C8_SuggestionNeverDearer ==
    Calculated =>
    \A i \in 1..Len(results) :
        LET r == results[i]
            sg == r.sizeSuggestion
            items == GroupItems(r)
        IN sg # Undefined =>
           \/ sg.price < r.calculatedPrice
           \/ /\ sg.price = r.calculatedPrice
              /\ r.needsCut
              /\ \E k \in 1..Len(items) :
                     LET at == calculatePriceForItem(items[k], sg.w_mm, sg.h_mm, ShownQty)
                     IN at # Null /\ ~at.needsCut /\ at.price = sg.price

\* a suggestion at the price of its result
C8_Witness ==
    /\ Calculated
    /\ \E i \in 1..Len(results) :
           /\ results[i].sizeSuggestion # Undefined
           /\ results[i].sizeSuggestion.price = results[i].calculatedPrice
           /\ results[i].needsCut

\* C9: at quantity 2000 every next-quantity suggestion names 4000, never 3000.
C9_NextOf2000Is4000 ==
    (Calculated /\ ShownQty = 2000)
    => \A i \in 1..Len(results) :
           results[i].nextQty # Undefined => results[i].nextQty.qty = 4000

C9_Witness ==
    /\ Calculated
    /\ ShownQty = 2000
    /\ \E i \in 1..Len(results) :
           results[i].nextQty # Undefined /\ results[i].nextQty.qty = 4000

\* C10: a width, height or quantity that is missing, unparseable, zero or
\* negative gives the invalid-input error and no result.
C10_InvalidInputRejected ==
    (/\ Calculated
     /\ \/ IsNaN(ShownW) \/ ShownW <= 0
        \/ IsNaN(ShownH) \/ ShownH <= 0
        \/ IsNaN(ShownQty) \/ ShownQty <= 0)
    => /\ error = INVALID_INPUT
       /\ results = <<>>

\* the request on screen passed the input check of the handler
ValidRequest == Calculated /\ ~InvalidInput(ShownW, ShownH, ShownQty)

\* the outcome of an entry for the request on screen
OutcomeOf(item) == calculatePriceForItem(item, ShownW, ShownH, ShownQty)

\* no entry of any group of the requested category has an outcome
NothingPriced ==
    \A k \in 1..Len(Grouped(data, shown.category)) :
        OutcomeOf(Grouped(data, shown.category)[k]) = Null

\* C11: for a request that passes the input check, the no-results error is
\* reported exactly when no entry of any group of the requested category has
\* an outcome, and then the list is empty; otherwise the list is not empty and
\* no error is set.
C11_NoResultsIffNothingPriced ==
    ValidRequest
    => /\ (error = NO_RESULTS <=> NothingPriced)
       /\ (NothingPriced => results = <<>>)
       /\ (~NothingPriced => results # <<>> /\ error = Null)

\* a category whose only entry is of a category without automated pricing
C11_Witness ==
    /\ ValidRequest
    /\ data = CatalogFlyers
    /\ shown.category = "Davetiye"
    /\ Len(Grouped(data, shown.category)) = 1
    /\ error = NO_RESULTS
    /\ results = <<>>

\* C12: after every calculation either the list is not empty and no error is
\* set, or the list is empty and one of the two errors is set.
C12_ResultsOrError ==
    Calculated
    => \/ results # <<>> /\ error = Null
       \/ results = <<>> /\ error \in {INVALID_INPUT, NO_RESULTS}

\* an error shown by a calculation that followed one with results
C12_Witness ==
    /\ Calculated
    /\ probe # Undefined
    /\ probe.results # <<>>
    /\ shown # probe.request
    /\ results = <<>>
    /\ error = INVALID_INPUT

\* a result of a brochure paper whose name contains "115"
Pinned(r) == r.matchItem.kategori = "Brosur" /\ Includes(r.paperName, "115")

\* the place of the group of a result in the order the groups are gone through
GroupPlace(r) ==
    CHOOSE g \in 1..Len(Groups(data, shown.category)) :
        Groups(data, shown.category)[g].paperName = r.paperName

\* C13: in the list, the results of the 115 gr brochure papers precede all
\* others whatever their price; among them, and among the others, prices do
\* not decrease, and results of equal price keep the order of their groups.
C13_PinnedThenByPrice ==
    Calculated =>
    \A i, j \in 1..Len(results) :
        i < j =>
        /\ ~(~Pinned(results[i]) /\ Pinned(results[j]))
        /\ (Pinned(results[i]) = Pinned(results[j])
            => /\ results[i].calculatedPrice <= results[j].calculatedPrice
               /\ (results[i].calculatedPrice = results[j].calculatedPrice
                   => GroupPlace(results[i]) < GroupPlace(results[j])))

\* two pinned results in the order of their prices, ahead of a cheaper one
C13_Witness ==
    /\ Calculated
    /\ Len(results) = 3
    /\ Pinned(results[1])
    /\ Pinned(results[2])
    /\ ~Pinned(results[3])
    /\ results[1].calculatedPrice < results[2].calculatedPrice
    /\ results[3].calculatedPrice < results[2].calculatedPrice
    /\ GroupPlace(results[3]) < GroupPlace(results[2])
    /\ GroupPlace(results[2]) < GroupPlace(results[1])

\* the results on screen that carry the name of a group
ResultsOf(group) == SelectSeq(results, LAMBDA r : r.paperName = group.paperName)

\* the places of the entries of a group that have an outcome
PricedPlaces(group) == {k \in 1..Len(group.items) : OutcomeOf(group.items[k]) # Null}

\* C14: a group with no outcome has no result; any other group has one
\* result, whose price is the lowest price over the entries of the group that
\* have an outcome, of whatever tier, and whose matched entry is an entry of
\* the group with that price.
C14_LowestPriceOfGroup ==
    ValidRequest =>
    \A g \in 1..Len(Groups(data, shown.category)) :
        LET group == Groups(data, shown.category)[g]
            found == ResultsOf(group)
        IN IF PricedPlaces(group) = {}
           THEN found = <<>>
           ELSE /\ Len(found) = 1
                /\ \A k \in PricedPlaces(group) :
                       found[1].calculatedPrice <= OutcomeOf(group.items[k]).price
                /\ \E k \in PricedPlaces(group) :
                       /\ found[1].matchItem = group.items[k]
                       /\ found[1].calculatedPrice = OutcomeOf(group.items[k]).price

\* the entry of the 2000 tier is matched, ahead of the cheaper-looking entry
\* of the 1000 tier that comes first in the group
C14_Witness ==
    /\ ValidRequest
    /\ \E i \in 1..Len(results) :
           /\ Len(GroupItems(results[i])) >= 2
           /\ results[i].matchItem # GroupItems(results[i])[1]
           /\ OutcomeOf(GroupItems(results[i])[1]) # Null
           /\ results[i].calculatedPrice < OutcomeOf(GroupItems(results[i])[1]).price

\* the places <<group, place in the group>> at which an entry is found
PlacesOf(entry, groups) ==
    {p \in UNION {{<<g, m>> : m \in 1..Len(groups[g].items)} : g \in 1..Len(groups)} :
        groups[p[1]].items[p[2]] = entry}

\* C15: the groups of a calculation partition the entries of the requested
\* category.  An entry of another category is in no group.  For a category
\* other than Magnet, an entry of the category is in exactly one group, and two
\* entries share a group exactly when the trimmed text before the first hyphen
\* of their descriptions is the same.  For Magnet, the entries with code MGN
\* are all in one group and the other entries are in none.
C15_GroupsPartition ==
    Calculated =>
    LET cat == shown.category
        groups == Groups(data, cat)
    IN /\ \A k \in 1..Len(data) :
              Cardinality(PlacesOf(data[k], groups))
                  = IF data[k].kategori # cat THEN 0
                    ELSE IF cat = "Magnet" /\ data[k].kod # "MGN" THEN 0
                    ELSE 1
       /\ \A g \in 1..Len(groups) : groups[g].items # <<>>
       /\ (cat = "Magnet" => Len(groups) <= 1)
       /\ (cat # "Magnet" =>
              \A k, l \in 1..Len(data) :
                  (data[k].kategori = cat /\ data[l].kategori = cat)
                  => ((\E p \in PlacesOf(data[k], groups), q \in PlacesOf(data[l], groups) :
                           p[1] = q[1])
                      <=> getPaperTypeGroup(data[k].aciklama, cat)
                              = getPaperTypeGroup(data[l].aciklama, cat)))

\* the brochures: four papers, the two entries of one paper in one group, and
\* a description with no blank before its hyphen
C15_Witness ==
    /\ Calculated
    /\ data = CatalogFull
    /\ shown.category = "Brosur"
    /\ Len(Groups(data, "Brosur")) = 4
    /\ Groups(data, "Brosur")[1] = [paperName |-> "150 gr. Parlak Kuse", items |-> <<BR150>>]
    /\ Groups(data, "Brosur")[2].items = <<BR115, BR115A>>

\* the array of every group is, after the price lookup of any tier, what it
\* was before the lookup
GroupsKept ==
    ValidRequest =>
    LET groups == Groups(data, shown.category)
    IN \A g \in 1..Len(groups) :
           \A i \in 1..Len(QUANTITY_OPTIONS) :
               ArraysOfLookup(groups[g].items, QUANTITY_OPTIONS[i]).items = groups[g].items

\* C17: no step changes the catalogue, and a calculation leaves the array of
\* every group as it was built from the catalogue, also when the price lookup
\* of a tier falls back to the first entry of the group.
C17_CatalogUnchanged == [][data' = data]_vars /\ []GroupsKept

\* the price of the tier before 2000 was looked up in a group with no entry
\* of tier 1000: the lookup fell back to the first entry of the group
C17_Witness ==
    /\ ValidRequest
    /\ data = CatalogFlyers
    /\ ShownQty = 2000
    /\ \E i \in 1..Len(results) :
           /\ GroupItems(results[i]) = <<EL2000>>
           /\ LookupArrays(GroupItems(results[i]), 1000).qItems = <<>>
           /\ LookupArrays(GroupItems(results[i]), 1000).thousand = <<>>
           /\ QtyCandidates(GroupItems(results[i]), 1000) = <<EL2000>>
           /\ results[i].prevQty # Undefined
           /\ results[i].prevQty.qty = 1000

\* the bases the snap search of a group works on: the base of every size of
\* the group that has one, as it is and turned
SnapBases(items) ==
    UNION {LET base == SnapBase(items[k], shown.category)
           IN IF IsNaN(base.w) \/ IsNaN(base.h) \/ base.w = 0 \/ base.h = 0
              THEN {}
              ELSE {base, [w |-> base.h, h |-> base.w]} : k \in 1..Len(items)}

\* u is a positive integer multiple of b
PositiveMultiple(u, b) == u > 0 /\ u % b = 0

\* u lies within d of a positive integer multiple of b
NearPositiveMultiple(u, b, d) ==
    \E k \in 1..((Abs(u) \div b) + 1) : Abs(u - k * b) <= d

\* C20: the dimensions of a size suggestion are positive integer multiples of
\* the base of some size of the group, as it is or turned, lie within 10 mm of
\* the requested width and height, and differ from the request by at least
\* 0.5 mm on one axis; a request within 0.5 mm of a multiple of every base of
\* the group on both axes, as it is and turned, gets no size suggestion.
C20_SuggestionOnTheGrid ==
    Calculated =>
    \A i \in 1..Len(results) :
        LET sg == results[i].sizeSuggestion
            bases == SnapBases(GroupItems(results[i]))
        IN /\ sg # Undefined =>
                  /\ \E base \in bases :
                         PositiveMultiple(sg.w_mm, base.w) /\ PositiveMultiple(sg.h_mm, base.h)
                  /\ Abs(ShownW - sg.w_mm) <= SNAP_TOLERANCE
                  /\ Abs(ShownH - sg.h_mm) <= SNAP_TOLERANCE
                  /\ \/ Abs(ShownW - sg.w_mm) >= SNAP_MIN_DIFF
                     \/ Abs(ShownH - sg.h_mm) >= SNAP_MIN_DIFF
           /\ (\A base \in bases :
                   /\ NearPositiveMultiple(ShownW, base.w, SNAP_MIN_DIFF)
                   /\ NearPositiveMultiple(ShownH, base.h, SNAP_MIN_DIFF))
              => sg = Undefined

\* a suggestion whose width is 10 mm off the requested width
C20_Witness ==
    /\ Calculated
    /\ \E i \in 1..Len(results) :
           /\ results[i].sizeSuggestion # Undefined
           /\ Abs(ShownW - results[i].sizeSuggestion.w_mm) = SNAP_TOLERANCE
           /\ ShownH = results[i].sizeSuggestion.h_mm

\* the outcomes of the snapped sizes tried for a group: for every size of the
\* group with a usable base, the direct and the turned snap of the request,
\* priced with the entry chosen for that size
SnapOutcomes(items) ==
    UNION {LET itemToUse == ItemToUse(items, items[k].ebat, ShownQty)
               base == SnapBase(itemToUse, shown.category)
           IN IF IsNaN(base.w) \/ IsNaN(base.h) \/ base.w = 0 \/ base.h = 0
              THEN {}
              ELSE {calculatePriceForItem(itemToUse, snap.w, snap.h, ShownQty) :
                        snap \in {checkSnap(ShownW, ShownH, base.w, base.h),
                                  RotatedSnap(ShownW, ShownH, base.w, base.h)} \ {Null}}
                   \ {Null} : k \in 1..Len(items)}

\* the snapped outcomes that are accepted against a result: cheaper, or at
\* the same price and a standard fit where the result needs a cut
AcceptedSnaps(r) ==
    {res \in SnapOutcomes(GroupItems(r)) :
         \/ res.price < r.calculatedPrice
         \/ res.price = r.calculatedPrice /\ r.needsCut /\ ~res.needsCut}

\* C21: outside Magnet, when snapped sizes are accepted for a group, the size
\* suggestion kept has the lowest price among them: no accepted snap is
\* cheaper than the suggestion.
C21_CheapestSnapKept ==
    (Calculated /\ shown.category # "Magnet") =>
    \A i \in 1..Len(results) :
        \A res \in AcceptedSnaps(results[i]) :
            /\ results[i].sizeSuggestion # Undefined
            /\ results[i].sizeSuggestion.price <= res.price

\* two snapped sizes of one group are accepted at different prices
C21_Witness ==
    /\ Calculated
    /\ shown.category # "Magnet"
    /\ \E i \in 1..Len(results) :
           /\ results[i].sizeSuggestion # Undefined
           /\ \E a, b \in AcceptedSnaps(results[i]) :
                  a.price < b.price /\ results[i].sizeSuggestion.price = a.price

\* C22: a request in category Magnet gets no size suggestion on any result,
\* whatever the width, height, quantity and catalogue.
C22_NoSuggestionForMagnet ==
    (Calculated /\ shown.category = "Magnet") =>
    \A i \in 1..Len(results) : results[i].sizeSuggestion = Undefined

\* a Magnet result on an entry with a size label, for a request whose snap to
\* that size would be cheaper
C22_Witness ==
    /\ Calculated
    /\ shown.category = "Magnet"
    /\ Len(results) > 0
    /\ \E res \in SnapOutcomes(GroupItems(results[1])) : res.price < results[1].calculatedPrice

\* the tiers of the list
QtyTiers == {QUANTITY_OPTIONS[i] : i \in 1..Len(QUANTITY_OPTIONS)}

\* the place of a tier in the list, counted from 1
TierPlace(qty) == CHOOSE k \in 1..Len(QUANTITY_OPTIONS) : QUANTITY_OPTIONS[k] = qty

TierEntries(items, T) == SelectSeq(items, LAMBDA i : parseMiktar(i.miktar) = T)

\* the entries tried for the tier T: those of tier T, else those of tier
\* 1000, else the first entry of the group
TriedEntries(items, T) ==
    IF TierEntries(items, T) # <<>> THEN TierEntries(items, T)
    ELSE IF TierEntries(items, 1000) # <<>> THEN TierEntries(items, 1000)
    ELSE <<items[1]>>

\* the prices of the entries that have an outcome for the request at quantity T
PricesAt(entries, T) ==
    {calculatePriceForItem(entries[k], ShownW, ShownH, T).price :
         k \in {j \in 1..Len(entries) :
                    calculatePriceForItem(entries[j], ShownW, ShownH, T) # Null}}

\* the suggestion expected for the tier T: the lowest price tried, none when
\* no entry tried has an outcome
ExpectedOffer(items, T) ==
    LET prices == PricesAt(TriedEntries(items, T), T)
    IN IF prices = {} THEN Undefined
       ELSE [qty |-> T,
             price |-> formatPrice(CHOOSE p \in prices : \A q \in prices : p <= q)]

\* C24: the price reported for a neighbour tier T is the lowest price at
\* quantity T over the entries of the group of tier T; with no such entry,
\* over its entries of tier 1000; with neither, the price of its first entry;
\* there is no suggestion when none of the entries tried has an outcome.
C24_NeighbourPrice ==
    (ValidRequest /\ ShownQty \in QtyTiers) =>
    \A i \in 1..Len(results) :
        LET items == GroupItems(results[i])
            k == TierPlace(ShownQty)
        IN /\ k > 1 => results[i].prevQty = ExpectedOffer(items, QUANTITY_OPTIONS[k - 1])
           /\ k < Len(QUANTITY_OPTIONS) =>
                  results[i].nextQty =
                      ExpectedOffer(items, IF ShownQty = 2000 THEN 4000
                                           ELSE QUANTITY_OPTIONS[k + 1])

\* one calculation shows the three ways to a price and the missing suggestion:
\* a next price from two entries of tier 1000 that differ, a next price from
\* the first entry of a group with neither tier, and a result with no
\* previous suggestion because the one entry tried has no outcome
C24_Witness ==
    /\ ValidRequest
    /\ ShownQty = 2000
    /\ \E i \in 1..Len(results) :
           LET items == GroupItems(results[i])
           IN /\ TierEntries(items, 4000) = <<>>
              /\ Len(TierEntries(items, 1000)) = 2
              /\ Cardinality(PricesAt(TierEntries(items, 1000), 4000)) = 2
              /\ results[i].nextQty # Undefined
    /\ \E i \in 1..Len(results) :
           LET items == GroupItems(results[i])
           IN /\ TierEntries(items, 4000) = <<>>
              /\ TierEntries(items, 1000) = <<>>
              /\ results[i].nextQty # Undefined
    /\ \E i \in 1..Len(results) :
           /\ results[i].prevQty = Undefined
           /\ Len(TierEntries(GroupItems(results[i]), 1000)) = 1

\* the catalogue without the entries of a group
WithoutGroup(group) ==
    SelectSeq(data, LAMBDA e : \A k \in 1..Len(group.items) : group.items[k] # e)

\* C25: a group none of whose entries has an outcome adds no result; while
\* another group of the category gives a result no error is set, and the
\* results are those of the same request on the catalogue without the entries
\* of that group.  No group has more than one result.
C25_SilentSkip ==
    ValidRequest =>
    \A g \in 1..Len(Groups(data, shown.category)) :
        LET group == Groups(data, shown.category)[g]
        IN /\ Len(ResultsOf(group)) <= 1
           /\ PricedPlaces(group) = {} =>
                  /\ ResultsOf(group) = <<>>
                  /\ Len(results) > 0 => error = Null
                  /\ results = handleCalculate(<<>>, WithoutGroup(group), shown.width,
                                               shown.height, shown.category,
                                               shown.quantity).results

\* a group without an outcome stands between two groups with results
C25_Witness ==
    /\ ValidRequest
    /\ error = Null
    /\ LET groups == Groups(data, shown.category)
       IN \E f, g, h \in 1..Len(groups) :
              /\ f < g
              /\ g < h
              /\ PricedPlaces(groups[g]) = {}
              /\ ResultsOf(groups[f]) # <<>>
              /\ ResultsOf(groups[h]) # <<>>

\* the entries the snap search of a group prices: for every size of the group,
\* the entry of the requested tier, else the one of tier 1000, else the first
ChosenEntries(items) ==
    {ItemToUse(items, items[k].ebat, ShownQty) : k \in 1..Len(items)}

\* C26: every size suggestion is a standard fit: an entry chosen for a size of
\* the group, evaluated at the suggested width and height, gives the price of
\* the suggestion with needsCut = false, also when the suggestion was taken
\* only for being cheaper.
C26_SuggestionIsStandardFit ==
    Calculated =>
    \A i \in 1..Len(results) :
        LET sg == results[i].sizeSuggestion
        IN sg # Undefined =>
           \E e \in ChosenEntries(GroupItems(results[i])) :
               LET at == calculatePriceForItem(e, sg.w_mm, sg.h_mm, ShownQty)
               IN at # Null /\ at.price = sg.price /\ ~at.needsCut

\* a suggestion taken for being cheaper than its result
C26_Witness ==
    /\ Calculated
    /\ \E i \in 1..Len(results) :
           /\ results[i].sizeSuggestion # Undefined
           /\ results[i].sizeSuggestion.price < results[i].calculatedPrice
           /\ ~results[i].sizeSuggestion.isSamePrice

\* the results of the request on screen calculated again at quantity T, for
\* the group named paperName
ResultsAt(T, paperName) ==
    SelectSeq(handleCalculate(<<>>, data, shown.width, shown.height, shown.category,
                              NumberToString(T)).results,
              LAMBDA r : r.paperName = paperName)

\* the previous and next suggestions of a result that are present
OffersOf(r) == {r.prevQty, r.nextQty} \ {Undefined}

\* C27: the price shown for a neighbour tier T in a previous or next
\* suggestion of a result is the price of the result of the same group when
\* the same width, height and category are calculated at quantity T.
C27_NeighbourPriceIsResultPrice ==
    ValidRequest =>
    \A i \in 1..Len(results) :
        \A offer \in OffersOf(results[i]) :
            LET at == ResultsAt(offer.qty, results[i].paperName)
            IN Len(at) = 1 /\ offer.price = at[1].formattedPrice

\* C27 as amended: the price shown for a neighbour tier T is never lower than
\* the price of the result of the same group calculated at quantity T, and is
\* that price when the matched entry of that result is among the entries
\* tried for T (those of tier T, else those of tier 1000, else the first).
C27_NeighbourPriceNotLower ==
    ValidRequest =>
    \A i \in 1..Len(results) :
        \A offer \in OffersOf(results[i]) :
            LET at == ResultsAt(offer.qty, results[i].paperName)
                tried == TriedEntries(GroupItems(results[i]), offer.qty)
            IN /\ Len(at) = 1
               /\ offer.price >= at[1].formattedPrice
               /\ (\E k \in 1..Len(tried) : tried[k] = at[1].matchItem)
                  => offer.price = at[1].formattedPrice

\* a next suggestion dearer than the result at its tier, beside a previous
\* suggestion at the price of the result at its tier
C27_Witness ==
    /\ ValidRequest
    /\ \E i \in 1..Len(results) :
           /\ results[i].nextQty # Undefined
           /\ results[i].prevQty # Undefined
           /\ results[i].nextQty.price >
                  ResultsAt(results[i].nextQty.qty, results[i].paperName)[1].formattedPrice
           /\ results[i].prevQty.price =
                  ResultsAt(results[i].prevQty.qty, results[i].paperName)[1].formattedPrice

\* widthMm * heightMm * 0.21 * (T / 1000) for the request on screen, in 1/10000
OfFormula(T) == ShownW * ShownH * MAGNET_RATE * (T \div 1000)

\* C29: a request in category Magnet has at most one result; the result is of
\* the formula strategy with needsCut = true, and its price, like the prices
\* of its quantity suggestions, is the formula's for the requested size and
\* quantity whatever the prices, sizes and tiers of the catalogue: the
\* imposition multiplier is never used.
C29_MagnetByFormulaOnly ==
    (ValidRequest /\ shown.category = "Magnet") =>
    /\ Len(results) <= 1
    /\ \A i \in 1..Len(results) :
           /\ results[i].strategy = "formula"
           /\ results[i].needsCut
           /\ results[i].calculatedPrice = OfFormula(ShownQty)
           /\ \A offer \in OffersOf(results[i]) :
                  offer.price = formatPrice(OfFormula(offer.qty))

\* a Magnet result on a catalogue whose MGN entry has a size, a tier of 2000
\* and a price, and that holds a Magnet entry of another code
C29_Witness ==
    /\ ValidRequest
    /\ shown.category = "Magnet"
    /\ Len(results) = 1
    /\ results[1].matchItem = MGNSZ
    /\ results[1].calculatedPrice > 0
    /\ results[1].nextQty # Undefined
    /\ \E k \in 1..Len(data) : data[k] = MG57

-----------------------------------------------------------------------------
(* Evaluation harness: calculatePriceForItem applied to drawn arguments *)

EvEvaluate ==
    /\ evOut = Undefined
    /\ UploadIdle
    /\ evOut' = calculatePriceForItem(evItem, evW, evH, evQty)
    /\ UNCHANGED <<evItem, evW, evH, evQty>>
    /\ UNCHANGED compVars
    /\ UNCHANGED upVars

EvalInit ==
    /\ CompInit
    /\ data = <<>>
    /\ probe = Undefined
    /\ evItem \in EvalItems
    /\ evW \in EvalDims
    /\ evH \in EvalDims
    /\ evQty \in Tiers
    /\ evOut = Undefined
    /\ UploadIdle

EvalNext == EvEvaluate

SpecEval == EvalInit /\ [][EvalNext]_vars

\* the evaluation returned an outcome of the imposition strategy
EvMultiplier == evOut # Undefined /\ evOut # Null /\ evOut.strategy = "multiplier"

\* the evaluation returned an outcome of the formula strategy
EvFormula == evOut # Undefined /\ evOut # Null /\ evOut.strategy = "formula"

-----------------------------------------------------------------------------
(* Claims on calculatePriceForItem *)

\* C1: a business-card entry of tier 1000 with unit price P, asked for
\* (a*86) x (b*54) mm at quantity 1000, is priced by the multiplier strategy
\* as a standard fit with multiplier a*b and price P*a*b; 86x54 at P = 550
\* gives multiplier 1 and price 550, 172x108 gives multiplier 4.
C1_ExactMultiples ==
    \A a, b \in 1..(MaxMultiple + 1) :
        (/\ evOut # Undefined
         /\ evItem.kategori = "Kartvizit"
         /\ parseMiktar(evItem.miktar) = 1000
         /\ evQty = 1000
         /\ evW = a * 860
         /\ evH = b * 540)
        => /\ EvMultiplier
           /\ evOut.needsCut = FALSE
           /\ evOut.details.multiplier = a * b
           /\ evOut.price = parsePrice(evItem.fiyat) * a * b
           /\ (a = 1 /\ b = 1 /\ evItem.fiyat = "550 TL" => evOut.price = 550 * 10000)
           /\ (a = 2 /\ b = 2 => evOut.details.multiplier = 4)

C1_Witness ==
    /\ evOut # Undefined
    /\ evItem = KV1000
    /\ evQty = 1000
    /\ evW = 1720
    /\ evH = 1080
    /\ evOut.details.multiplier = 4
    /\ evOut.price = 2200 * 10000

\* C3: a Magnet entry with code MGN is priced widthMm * heightMm * 0.21 *
\* (targetQty / 1000) whatever its own price, size and tier, and always needs
\* a custom cut; 100x150 mm at quantity 2000 gives 6300.
C3_MagnetFormula ==
    (evOut # Undefined /\ evItem.kategori = "Magnet" /\ evItem.kod = "MGN")
    => /\ EvFormula
       /\ evOut.needsCut = TRUE
       /\ evQty % 1000 = 0
       \* price/10000 = (evW/10) * (evH/10) * 0.21 * (evQty/1000)
       /\ evOut.price = evW * evH * 21 * (evQty \div 1000)
       /\ (evW = 1000 /\ evH = 1500 /\ evQty = 2000 => evOut.price = 6300 * 10000)

C3_Witness ==
    /\ evOut # Undefined
    /\ evItem = MGN2
    /\ evW = 1000
    /\ evH = 1500
    /\ evQty = 2000
    /\ evOut.price = 6300 * 10000
    /\ evOut.needsCut

\* C6: for every entry, quantity and request (w, h) of positive lengths, the
\* request (h, w) gets the same standard-fit verdict and the same multiplier.
C6_OrientationSymmetric ==
    (EvMultiplier /\ evW > 0 /\ evH > 0)
    => LET swapped == calculatePriceForItem(evItem, evH, evW, evQty)
       IN /\ swapped.needsCut = evOut.needsCut
          /\ swapped.details.multiplier = evOut.details.multiplier

\* C7: for a non-standard piece and k = ceil(targetQty / tier) pieces, the
\* multiplier is at most k times the multiplier the layout search gives for
\* one piece.
C7_AtMostLinear ==
    (EvMultiplier /\ evOut.needsCut /\ ~IsNaN(evOut.details.multiplier))
    => LET k == CeilDiv(evQty, ItemQty(evItem))
           single == bestTotalMolds(evW, evH, evOut.baseDims.w, evOut.baseDims.h, 1)
       IN /\ k >= 1
          /\ evOut.details.multiplier <= k * single

\* the size label of an entry parses into two numbers other than 0
TwoDimensions(item) ==
    LET s == parseSize(item.ebat)
    IN s # Null /\ ~IsNaN(s.w) /\ ~IsNaN(s.h) /\ s.w # 0 /\ s.h # 0

\* C16: the evaluation of an entry is null exactly when its category is not
\* the Magnet product of code MGN and not a multiplier category, or is a
\* multiplier category without a fixed base size while its size label does not
\* parse into two dimensions other than 0.
C16_NullExactlyWhenUnpriceable ==
    evOut # Undefined =>
    (evOut = Null
     <=> /\ ~(evItem.kategori = "Magnet" /\ evItem.kod = "MGN")
         /\ \/ evItem.kategori \notin MULTIPLIER_CATEGORIES
            \/ /\ evItem.kategori \notin {"Kartvizit", "Etiket"}
               /\ ~TwoDimensions(evItem))

\* the length u is within 0.5 mm of k times the length b, for an integer k
NearMultiple(u, b) ==
    \E k \in (-(Abs(u) \div b) - 1)..((Abs(u) \div b) + 1) : Abs(u - k * b) <= 5

\* the tier of an entry, 1000 when its quantity label has no number
EntryTier(item) == IF IsNaN(parseMiktar(item.miktar)) THEN 1000 ELSE parseMiktar(item.miktar)

Sheets(lw, lh, bw, bh) == CeilDiv(lw, bw) * CeilDiv(lh, bh)

\* the sheet counts of every layout of n pieces of w x h: r rows by c columns
\* for every r * c = n, on the base as it is and turned
SheetCounts(w, h, bw, bh, n) ==
    UNION {{Sheets(w * (n \div r), h * r, bw, bh), Sheets(w * (n \div r), h * r, bh, bw)} :
              r \in {q \in 1..n : n % q = 0}}

\* C19: for a size that is no standard fit, the multiplier is the lowest sheet
\* count over every factor pair of n = ceil(targetQty / tier), both ways round,
\* and over the base as it is and turned; it is an integer >= 1.
C19_LowestSheetCount ==
    (EvMultiplier /\ evOut.needsCut /\ ~IsNaN(evOut.details.multiplier))
    => LET counts == SheetCounts(evW, evH, evOut.baseDims.w, evOut.baseDims.h,
                                 CeilDiv(evQty, EntryTier(evItem)))
       IN /\ evOut.details.multiplier \in counts
          /\ \A x \in counts : evOut.details.multiplier <= x
          /\ evOut.details.multiplier >= 1

\* C28: for one entry and one size of positive width and height that is no
\* standard fit, the multiplier of the layout search does not decrease when
\* the piece count n = ceil(targetQty / tier) grows, and neither does the
\* price.
C28_MoreNeverCheaper ==
    (EvMultiplier /\ evOut.needsCut /\ ~IsNaN(evOut.details.multiplier) /\ evW > 0 /\ evH > 0) =>
    \A q \in Tiers :
        LET more == calculatePriceForItem(evItem, evW, evH, q)
        IN CeilDiv(q, EntryTier(evItem)) >= CeilDiv(evQty, EntryTier(evItem))
           => /\ more.details.multiplier >= evOut.details.multiplier
              /\ (~IsNaN(evOut.price) => more.price >= evOut.price)


-----------------------------------------------------------------------------
(* Claims on the upload component *)

\* the calls of onDataUpdate made by the analysis i
UpdatesBy(i) == {k \in 1..Len(updates) : updates[k].by = i}

\* the loading flag is on only while a started analysis has not ended, and
\* onDataUpdate was called once by every analysis that succeeded, by no other
LoadingOnlyWhileAnalysing ==
    /\ state.isLoading => \E i \in 1..MaxAnalyses : analyses[i].stage = "running"
    /\ \A i \in 1..MaxAnalyses :
           /\ Cardinality(UpdatesBy(i)) = (IF analyses[i].stage = "done" THEN 1 ELSE 0)
           /\ analyses[i].stage # "none" => analyses[i].image # Null

\* what a step does to the component when an analysis starts, succeeds or
\* fails; without a preview no step starts an analysis or turns the flag on
AnalysisSteps ==
    /\ \A i \in 1..MaxAnalyses :
           /\ analyses[i].stage = "none" /\ analyses'[i].stage # "none" =>
                  /\ preview # Null
                  /\ analyses'[i].stage = "running"
                  /\ state'.isLoading
           /\ analyses[i].stage = "running" /\ analyses'[i].stage = "done" =>
                  /\ ~state'.isLoading
                  /\ state'.error = Null
                  /\ Len(updates') = Len(updates) + 1
                  /\ SubSeq(updates', 1, Len(updates)) = updates
                  /\ updates'[Len(updates')].by = i
                  /\ updates'[Len(updates')].data \in NewCatalogs
           /\ analyses[i].stage = "running" /\ analyses'[i].stage = "failed" =>
                  /\ ~state'.isLoading
                  /\ state'.error = ANALYSIS_ERROR
                  /\ updates' = updates
                  /\ data' = data
           /\ analyses[i].stage \in {"done", "failed"} => analyses'[i] = analyses[i]
    /\ preview = Null =>
           /\ state'.isLoading => state.isLoading
           /\ \A i \in 1..MaxAnalyses : analyses[i].stage = "none" => analyses'[i] = analyses[i]
    /\ updates' # updates => \E i \in 1..MaxAnalyses :
                                 analyses[i].stage = "running" /\ analyses'[i].stage = "done"

\* C30: the loading flag is true only between the start of an analysis and
\* its end; every started analysis ends, with the loading flag false: on
\* success with no error and the new catalogue passed to onDataUpdate exactly
\* once, on failure with the error message and no call of onDataUpdate; and
\* handleAnalyze without a selected image changes nothing.
C30_LoadingBrackets ==
    /\ []LoadingOnlyWhileAnalysing
    /\ [][AnalysisSteps]_vars
    /\ \A i \in 1..MaxAnalyses :
           (analyses[i].stage = "running")
               ~> (analyses[i].stage \in {"done", "failed"} /\ ~state.isLoading)

\* one analysis has succeeded and another has failed: one call of
\* onDataUpdate, the error message on screen, the loading flag off
C30_Witness ==
    /\ \E i \in 1..MaxAnalyses : analyses[i].stage = "done"
    /\ \E i \in 1..MaxAnalyses : analyses[i].stage = "failed"
    /\ Len(updates) = 1
    /\ state = FailedState

====
